---- MODULE Spec2Model ----
(***************************************************************************)
(* Model of the batch download orchestrator of spotify-dl                  *)
(* (src/src/download.rs): the shared RateLimiter, the per-track pipeline   *)
(* download_track and the bounded fan-out of download_tracks.              *)
(*                                                                         *)
(* Time is a discrete monotonic clock `now` (Instant::now()).  Durations   *)
(* are whole ticks and multipliers are whole numbers, so that              *)
(* as_secs_f64() * multiplier -> from_secs_f64 is exact in the model.      *)
(* Every `.await` of the source is a place where another pipeline may run  *)
(* and where the clock may advance.                                        *)
(***************************************************************************)
EXTENDS Integers, FiniteSets, Sequences, TLC

\* ------------------------------------------------------------------ bounds
NumJobs == 3
Parallel == 2
MaxTime == 1
MaxBase == 1
MaxMax == 2
MaxEvents == 1
MaxRx == 4

Jobs == 1..NumJobs

Max(a, b) == IF a >= b THEN a ELSE b
Min(a, b) == IF a <= b THEN a ELSE b

\* ------------------------------------------------- Option<Instant> values
None == [present |-> FALSE, at |-> 0]
Some(t) == [present |-> TRUE, at |-> t]

\* ------------------------------------------------------- f64 multipliers
Finite(v) == [finite |-> TRUE, val |-> v]
NonFinite == [finite |-> FALSE, val |-> 0]
MultiplierInputs == {NonFinite, Finite(0), Finite(1), Finite(2)}

\* --------------------------------------------------------- RateLimitConfig
\* variant of RateLimitConfigNew: max_delay is taken as given
RateLimitConfigNew_KeepMax(base_delay, multiplier, max_delay) ==
    LET m1 == IF multiplier.finite THEN multiplier.val ELSE 1
        m2 == Max(m1, 1)
    IN  [base_delay |-> base_delay, multiplier |-> m2, max_delay |-> max_delay,
         reset_after_success |-> TRUE]

\* RateLimitConfig::new: a non-finite multiplier becomes 1.0, a multiplier
\* below 1.0 becomes 1.0, a max_delay below base_delay becomes base_delay
RateLimitConfigNew(base_delay, multiplier, max_delay) ==
    LET m1 == IF multiplier.finite THEN multiplier.val ELSE 1
        m2 == Max(m1, 1)
        md == IF max_delay < base_delay THEN base_delay ELSE max_delay
    IN  [base_delay |-> base_delay, multiplier |-> m2, max_delay |-> md,
         reset_after_success |-> TRUE]

RateLimitConfigDisabled ==
    [base_delay |-> 0, multiplier |-> 1, max_delay |-> 0,
     reset_after_success |-> TRUE]

\* variant of IsEnabled: every config counts as enabled
IsEnabled_Always(cfg) == TRUE

IsEnabled(cfg) == cfg.base_delay # 0

\* ------------------------------------------------------- RateLimiterState
RateLimiterStateDefault == [current_delay |-> 0, next_ready |-> None]

\* variant of SleepDuration: the deadline is compared with >= instead of >
SleepDuration_Geq(st, t) ==
    IF st.next_ready.present
    THEN IF st.next_ready.at >= t THEN Some(st.next_ready.at - t) ELSE None
    ELSE None

\* the value of sleep_duration computed under the lock in wait_ready
SleepDuration(st, t) ==
    IF st.next_ready.present
    THEN IF st.next_ready.at > t THEN Some(st.next_ready.at - t) ELSE None
    ELSE None

\* variant of WaitReadyState: clearing an elapsed deadline also resets the
\* backoff level
WaitReadyState_ResetsDelay(st, t) ==
    IF st.next_ready.present /\ ~(st.next_ready.at > t)
    THEN [current_delay |-> 0, next_ready |-> None]
    ELSE st

\* the RateLimiterState left by the locked block of wait_ready
WaitReadyState(st, t) ==
    IF st.next_ready.present /\ ~(st.next_ready.at > t)
    THEN [st EXCEPT !.next_ready = None]
    ELSE st

\* variant of NextDelay: the scaled delay is not capped at max_delay
NextDelay_NoCap(cfg, st) ==
    IF st.current_delay = 0
    THEN cfg.base_delay
    ELSE Max(st.current_delay * Max(cfg.multiplier, 1), cfg.base_delay)

\* next_delay of on_failure
NextDelay(cfg, st) ==
    IF st.current_delay = 0
    THEN cfg.base_delay
    ELSE LET scaled == st.current_delay * Max(cfg.multiplier, 1)
         IN  Min(Max(scaled, cfg.base_delay), Max(cfg.max_delay, cfg.base_delay))

\* the RateLimiterState left by on_failure (enabled config)
OnFailureState(cfg, st, t) ==
    LET next_delay == NextDelay(cfg, st)
        proposed_ready == t + next_delay
    IN  IF next_delay = 0
        THEN [current_delay |-> 0, next_ready |-> None]
        ELSE [current_delay |-> next_delay,
              next_ready |->
                  IF st.next_ready.present /\ st.next_ready.at > proposed_ready
                  THEN st.next_ready
                  ELSE Some(proposed_ready)]

\* variant of OnSuccessState: the pending deadline is not looked at
OnSuccessState_AlwaysReset(cfg, st, t) ==
    [current_delay |-> 0, next_ready |-> None]

\* variant of OnSuccessState: a pending deadline is kept, the level is reset
OnSuccessState_ResetLevel(cfg, st, t) ==
    IF st.next_ready.present /\ st.next_ready.at > t
    THEN [st EXCEPT !.current_delay = 0]
    ELSE [current_delay |-> 0, next_ready |-> None]

\* the RateLimiterState left by the locked part of on_success
OnSuccessState(cfg, st, t) ==
    IF st.next_ready.present /\ st.next_ready.at > t
    THEN st
    ELSE [current_delay |-> 0, next_ready |-> None]

\* ------------------------------------------------------------------ state
VARIABLES
    config,        \* options.rate_limit, immutable after construction
    force,         \* options.force
    now,           \* the monotonic clock read by Instant::now()
    state,         \* the RateLimiterState behind the Mutex
    lockHolder,    \* the job holding the Mutex guard, 0 when the Mutex is free
    job,           \* per track: position in download_track and what it did
    nextTrack,     \* the next track futures::stream::iter(tracks) will yield
    result,        \* "running", or what download_tracks returned: "Ok", "Err"
    failDeadline,  \* history: the latest now + delay any on_failure has recorded
    failStreak,    \* history: on_failure calls since current_delay was last 0
    lastOp,        \* history: the last RateLimiter operation that held the Mutex
    rx,            \* buffer_track: the events still in the StreamEventChannel
    samples,       \* buffer_track: the Vec<i32> accumulator
    position,      \* buffer_track: the position of the progress bar
    bufferResult,  \* buffer_track: "idle", "running", or what it returned
    consumed       \* history: the events rx.recv() has yielded so far

\* the state of one buffer_track call
bufVars == <<rx, samples, position, bufferResult, consumed>>

vars == <<config, force, now, state, lockHolder, job, nextTrack, result,
          failDeadline, failStreak, lastOp, bufVars>>

NewJob ==
    [pc |-> "queued", wake |-> 0, status |-> "Pending", outcome |-> "none",
     cause |-> "none", opened |-> FALSE, nSuccess |-> 0, nFailure |-> 0,
     gate |-> 0, delay |-> 0, received |-> 0, sleeps |-> 0, existed |-> FALSE]

Init ==
    /\ \E b \in 0..MaxBase, m \in MultiplierInputs, x \in 0..MaxMax :
          config = IF b = 0 THEN RateLimitConfigDisabled
                   ELSE RateLimitConfigNew(b, m, x)
    /\ force \in BOOLEAN
    /\ now = 0
    /\ state = RateLimiterStateDefault
    /\ lockHolder = 0
    /\ job = [j \in Jobs |-> NewJob]
    /\ nextTrack = 1
    /\ result = "running"
    /\ failDeadline = 0
    /\ failStreak = 0
    /\ lastOp = "none"
    /\ rx = <<>>
    /\ samples = <<>>
    /\ position = 0
    /\ bufferResult = "idle"
    /\ consumed = <<>>

\* the futures buffer_unordered holds and polls
InFlight == {j \in Jobs : job[j].pc \notin {"queued", "returned"}}

\* variant of HasFreeSlot: one future more than the limit is admitted
HasFreeSlot_OffByOne == Cardinality(InFlight) <= Parallel

\* buffer_unordered(options.parallel) pulls the next track only below the limit
HasFreeSlot == Cardinality(InFlight) < Parallel

\* variant of Collected: the results are gathered without looking at Err
Collected_IgnoreErr(j, out) ==
    IF nextTrack > NumJobs /\ InFlight \subseteq {j} THEN "Ok" ELSE "running"

\* what try_collect returns when the future of j completes with out
Collected(j, out) ==
    IF out = "Err" THEN "Err"
    ELSE IF nextTrack > NumJobs /\ InFlight \subseteq {j} THEN "Ok"
    ELSE "running"

\* download_track of j returns out; an Err ends the batch and drops every
\* other future, together with any Mutex guard it holds
Return(j, rec, out) ==
    /\ job' = [job EXCEPT ![j] = [rec EXCEPT !.pc = "returned", !.outcome = out,
                                             !.wake = 0, !.gate = 0,
                                             !.delay = 0, !.received = 0,
                                             !.existed = (rec.status = "Skipped")]]
    /\ result' = Collected(j, out)
    /\ lockHolder' = IF out = "Err" THEN 0
                     ELSE IF lockHolder = j THEN 0 ELSE lockHolder

\* the clock advances; a sleeper may always be woken late, never early
Tick ==
    /\ result = "running"
    /\ \/ now < MaxTime
       \/ \E j \in Jobs : job[j].pc \in {"wr_sleep", "bo_sleep"} /\ job[j].wake > now
    /\ now' = now + 1
    /\ UNCHANGED <<bufVars, config, force, state, lockHolder, job, nextTrack, result,
                   failDeadline, failStreak, lastOp>>

\* buffer_unordered creates the next future and polls it up to the first await
\* of wait_ready
Start(j) ==
    /\ result = "running"
    /\ j = nextTrack
    /\ job[j].pc = "queued"
    /\ HasFreeSlot
    /\ nextTrack' = nextTrack + 1
    /\ job' = [job EXCEPT ![j].pc = IF IsEnabled(config) THEN "wr_lock"
                                    ELSE "resolving",
                          ![j].gate = failDeadline]
    /\ UNCHANGED <<bufVars, config, force, now, state, lockHolder, result,
                   failDeadline, failStreak, lastOp>>

\* self.state.lock().await in wait_ready
WaitReadyLock(j) ==
    /\ result = "running"
    /\ job[j].pc = "wr_lock"
    /\ lockHolder = 0
    /\ lockHolder' = j
    /\ job' = [job EXCEPT ![j].pc = "wr_locked"]
    /\ UNCHANGED <<bufVars, config, force, now, state, nextTrack, result,
                   failDeadline, failStreak, lastOp>>

\* variant of WaitReadyCheck: the guard lives across sleep(duration)
WaitReadyCheck_HoldLock(j) ==
    /\ result = "running"
    /\ job[j].pc = "wr_locked"
    /\ lockHolder = j
    /\ LET sleep_duration == SleepDuration(state, now)
       IN  /\ state' = WaitReadyState(state, now)
           /\ job' = [job EXCEPT
                  ![j].pc = IF ~sleep_duration.present THEN "resolving"
                            ELSE IF sleep_duration.at # 0 THEN "wr_sleep"
                            ELSE "wr_lock",
                  ![j].wake = IF sleep_duration.present /\ sleep_duration.at # 0
                              THEN now + sleep_duration.at ELSE 0,
                  ![j].sleeps = IF ~sleep_duration.present THEN 0
                                ELSE IF sleep_duration.at # 0 THEN @ + 1
                                ELSE @]
           /\ lockHolder' = IF sleep_duration.present /\ sleep_duration.at # 0
                            THEN j ELSE 0
    /\ lastOp' = "wait_ready"
    /\ UNCHANGED <<bufVars, config, force, now, nextTrack, result,
                   failDeadline, failStreak>>

\* the locked block of wait_ready and the match on sleep_duration
WaitReadyCheck(j) ==
    /\ result = "running"
    /\ job[j].pc = "wr_locked"
    /\ lockHolder = j
    /\ LET sleep_duration == SleepDuration(state, now)
       IN  /\ state' = WaitReadyState(state, now)
           /\ job' = [job EXCEPT
                  ![j].pc = IF ~sleep_duration.present THEN "resolving"
                            ELSE IF sleep_duration.at # 0 THEN "wr_sleep"
                            ELSE "wr_lock",
                  ![j].wake = IF sleep_duration.present /\ sleep_duration.at # 0
                              THEN now + sleep_duration.at ELSE 0,
                  ![j].sleeps = IF ~sleep_duration.present THEN 0
                                ELSE IF sleep_duration.at # 0 THEN @ + 1
                                ELSE @]
    /\ lockHolder' = 0
    /\ lastOp' = "wait_ready"
    /\ UNCHANGED <<bufVars, config, force, now, nextTrack, result,
                   failDeadline, failStreak>>

\* variant of WaitReadyWake: the loop is left after the sleep, on the stale read
WaitReadyWake_NoRecheck(j) ==
    /\ result = "running"
    /\ job[j].pc = "wr_sleep"
    /\ now >= job[j].wake
    /\ job' = [job EXCEPT ![j].pc = "resolving", ![j].wake = 0, ![j].sleeps = 0]
    /\ UNCHANGED <<bufVars, config, force, now, state, lockHolder, nextTrack, result,
                   failDeadline, failStreak, lastOp>>

\* sleep(duration).await in wait_ready completes; the loop repeats
WaitReadyWake(j) ==
    /\ result = "running"
    /\ job[j].pc = "wr_sleep"
    /\ now >= job[j].wake
    /\ job' = [job EXCEPT ![j].pc = "wr_lock", ![j].wake = 0]
    /\ UNCHANGED <<bufVars, config, force, now, state, lockHolder, nextTrack, result,
                   failDeadline, failStreak, lastOp>>

\* on_failure as called by backoff_after_failure: a disabled limiter returns
\* Duration::ZERO at once and the routine returns; otherwise wait for the Mutex
CallOnFailure(j, rec) ==
    LET called == [rec EXCEPT !.nFailure = @ + 1]
    IN  IF IsEnabled(config)
        THEN /\ job' = [job EXCEPT ![j] = [called EXCEPT !.pc = "of_lock"]]
             /\ UNCHANGED <<lockHolder, result>>
        ELSE Return(j, called, "Ok")

\* on_success: returns at once when disabled or reset_after_success is off;
\* otherwise wait for the Mutex
CallOnSuccess(j, rec) ==
    LET called == [rec EXCEPT !.nSuccess = @ + 1]
    IN  IF IsEnabled(config) /\ config.reset_after_success
        THEN /\ job' = [job EXCEPT ![j] = [called EXCEPT !.pc = "os_lock"]]
             /\ UNCHANGED <<lockHolder, result>>
        ELSE Return(j, called, "Ok")

\* variant of SoftFailure: the failure exit ends with on_success, which resets
\* the backoff
SoftFailure_ThenSuccess(j, c) ==
    CallOnSuccess(j, [job[j] EXCEPT !.status = "Failed", !.cause = c,
                                    !.received = 0])

\* variant of SoftFailure: the error is propagated with `?`
SoftFailure_Propagate(j, c) ==
    Return(j, [job[j] EXCEPT !.status = "Fatal", !.cause = c], "Err")

\* the Err(e) arms of stream.stream(track) and buffer_track: fail_with_error,
\* then backoff_after_failure, then return Ok(())
SoftFailure(j, c) ==
    CallOnFailure(j, [job[j] EXCEPT !.status = "Failed", !.cause = c,
                                    !.received = 0])

\* an error propagated by `?`: download_track returns Err
Propagate(j, c) ==
    Return(j, [job[j] EXCEPT !.status = "Fatal", !.cause = c], "Err")

\* variant of ShouldSkip: --force is not consulted
ShouldSkip_IgnoreForce(exists) == exists

\* the skip test of download_track
ShouldSkip(exists) == ~force /\ exists

\* track.metadata(..).await?, the output path, the skip test, and the call of
\* stream.stream(track) up to its await
Resolve(j) ==
    /\ result = "running"
    /\ job[j].pc = "resolving"
    /\ \E metadataOk \in BOOLEAN, pathOk \in BOOLEAN, exists \in BOOLEAN :
          IF ~metadataOk THEN Propagate(j, "metadata")
          ELSE IF ~pathOk THEN Propagate(j, "path")
          ELSE IF ShouldSkip(exists)
               THEN CallOnSuccess(j, [job[j] EXCEPT !.status = "Skipped",
                                                    !.existed = exists])
          ELSE /\ job' = [job EXCEPT ![j].pc = "streaming", ![j].opened = TRUE,
                                     ![j].existed = exists]
               /\ UNCHANGED <<lockHolder, result>>
    /\ UNCHANGED <<bufVars, config, force, now, state, nextTrack,
                   failDeadline, failStreak, lastOp>>

\* stream.stream(track).await returns the channel or an error
StreamOpen(j) ==
    /\ result = "running"
    /\ job[j].pc = "streaming"
    /\ \E ok \in BOOLEAN :
          IF ok
          THEN /\ job' = [job EXCEPT ![j].pc = "buffering"]
               /\ UNCHANGED <<lockHolder, result>>
          ELSE SoftFailure(j, "stream")
    /\ UNCHANGED <<bufVars, config, force, now, state, nextTrack,
                   failDeadline, failStreak, lastOp>>

StreamEvents == {"Write", "Retry", "Finished", "Error", "Closed"}

\* one rx.recv().await of buffer_track; "Closed" is recv() returning None
Buffer(j) ==
    /\ result = "running"
    /\ job[j].pc = "buffering"
    /\ \E event \in StreamEvents :
          CASE event \in {"Write", "Retry"} ->
                   /\ job[j].received < MaxEvents
                   /\ job' = [job EXCEPT ![j].received = @ + 1]
                   /\ UNCHANGED <<lockHolder, result>>
            [] event \in {"Finished", "Closed"} ->
                   /\ job' = [job EXCEPT ![j].pc = "encoding",
                                              ![j].received = 0]
                   /\ UNCHANGED <<lockHolder, result>>
            [] event = "Error" -> SoftFailure(j, "buffer")
    /\ UNCHANGED <<bufVars, config, force, now, state, nextTrack,
                   failDeadline, failStreak, lastOp>>

\* encoder.encode(samples).await?
Encode(j) ==
    /\ result = "running"
    /\ job[j].pc = "encoding"
    /\ \E ok \in BOOLEAN :
          IF ok
          THEN /\ job' = [job EXCEPT ![j].pc = "writing"]
               /\ UNCHANGED <<lockHolder, result>>
          ELSE Propagate(j, "encode")
    /\ UNCHANGED <<bufVars, config, force, now, state, nextTrack,
                   failDeadline, failStreak, lastOp>>

\* stream.write_to_file(&path).await?
WriteFile(j) ==
    /\ result = "running"
    /\ job[j].pc = "writing"
    /\ \E ok \in BOOLEAN :
          IF ok
          THEN /\ job' = [job EXCEPT ![j].pc = "tagging"]
               /\ UNCHANGED <<lockHolder, result>>
          ELSE Propagate(j, "write")
    /\ UNCHANGED <<bufVars, config, force, now, state, nextTrack,
                   failDeadline, failStreak, lastOp>>

\* metadata.tags().await? and store_tags(..).await?, then the progress bar is
\* finished and on_success is called
Tag(j) ==
    /\ result = "running"
    /\ job[j].pc = "tagging"
    /\ \E ok \in BOOLEAN :
          IF ok
          THEN CallOnSuccess(j, [job[j] EXCEPT !.status = "Done"])
          ELSE Propagate(j, "tag")
    /\ UNCHANGED <<bufVars, config, force, now, state, nextTrack,
                   failDeadline, failStreak, lastOp>>

\* self.state.lock().await in on_success
OnSuccessLock(j) ==
    /\ result = "running"
    /\ job[j].pc = "os_lock"
    /\ lockHolder = 0
    /\ lockHolder' = j
    /\ job' = [job EXCEPT ![j].pc = "os_locked"]
    /\ UNCHANGED <<bufVars, config, force, now, state, nextTrack, result,
                   failDeadline, failStreak, lastOp>>

\* the locked part of on_success; download_track then returns Ok(())
OnSuccess(j) ==
    /\ result = "running"
    /\ job[j].pc = "os_locked"
    /\ lockHolder = j
    /\ state' = OnSuccessState(config, state, now)
    /\ failStreak' = IF state'.current_delay = 0 THEN 0 ELSE failStreak
    /\ lastOp' = "on_success"
    /\ Return(j, job[j], "Ok")
    /\ UNCHANGED <<bufVars, config, force, now, nextTrack, failDeadline>>

\* variant of OnFailureLock: on_failure goes on without the Mutex being free
OnFailureLock_NoExclusion(j) ==
    /\ result = "running"
    /\ job[j].pc = "of_lock"
    /\ lockHolder' = j
    /\ job' = [job EXCEPT ![j].pc = "of_locked"]
    /\ UNCHANGED <<bufVars, config, force, now, state, nextTrack, result,
                   failDeadline, failStreak, lastOp>>

\* self.state.lock().await in on_failure
OnFailureLock(j) ==
    /\ result = "running"
    /\ job[j].pc = "of_lock"
    /\ lockHolder = 0
    /\ lockHolder' = j
    /\ job' = [job EXCEPT ![j].pc = "of_locked"]
    /\ UNCHANGED <<bufVars, config, force, now, state, nextTrack, result,
                   failDeadline, failStreak, lastOp>>

\* variant of OnFailure: the guard taken by on_failure lives until
\* backoff_after_failure returns, across sleep(delay)
OnFailure_HoldLock(j) ==
    /\ result = "running"
    /\ job[j].pc = "of_locked"
    /\ lockHolder = j
    /\ LET delay == NextDelay(config, state)
       IN  /\ state' = OnFailureState(config, state, now)
           /\ failStreak' = failStreak + 1
           /\ lastOp' = "on_failure"
           /\ failDeadline' = Max(failDeadline, now + delay)
           /\ IF delay = 0
              THEN Return(j, [job[j] EXCEPT !.delay = delay], "Ok")
              ELSE /\ job' = [job EXCEPT ![j].pc = "bo_sleep",
                                         ![j].delay = delay,
                                         ![j].wake = now + delay]
                   /\ UNCHANGED <<lockHolder, result>>
    /\ UNCHANGED <<bufVars, config, force, now, nextTrack>>

\* the locked part of on_failure, then backoff_after_failure: return when the
\* delay is zero, otherwise start sleep(delay)
OnFailure(j) ==
    /\ result = "running"
    /\ job[j].pc = "of_locked"
    /\ lockHolder = j
    /\ LET delay == NextDelay(config, state)
       IN  /\ state' = OnFailureState(config, state, now)
           /\ failStreak' = failStreak + 1
           /\ lastOp' = "on_failure"
           /\ failDeadline' = Max(failDeadline, now + delay)
           /\ IF delay = 0
              THEN Return(j, [job[j] EXCEPT !.delay = delay], "Ok")
              ELSE /\ job' = [job EXCEPT ![j].pc = "bo_sleep",
                                         ![j].delay = delay,
                                         ![j].wake = now + delay]
                   /\ lockHolder' = 0
                   /\ UNCHANGED result
    /\ UNCHANGED <<bufVars, config, force, now, nextTrack>>

\* variant of BackoffWake: backoff_after_failure returns without waiting for
\* the sleep
BackoffWake_NoSleep(j) ==
    /\ result = "running"
    /\ job[j].pc = "bo_sleep"
    /\ Return(j, job[j], "Ok")
    /\ UNCHANGED <<bufVars, config, force, now, state, nextTrack,
                   failDeadline, failStreak, lastOp>>

\* sleep(delay).await of backoff_after_failure completes; download_track
\* returns Ok(())
BackoffWake(j) ==
    /\ result = "running"
    /\ job[j].pc = "bo_sleep"
    /\ now >= job[j].wake
    /\ Return(j, job[j], "Ok")
    /\ UNCHANGED <<bufVars, config, force, now, state, nextTrack,
                   failDeadline, failStreak, lastOp>>

\* the steps of the pipeline of track j
JobStep(j) ==
    \/ Start(j)
    \/ WaitReadyLock(j)
    \/ WaitReadyCheck(j)
    \/ WaitReadyWake(j)
    \/ Resolve(j)
    \/ StreamOpen(j)
    \/ Buffer(j)
    \/ Encode(j)
    \/ WriteFile(j)
    \/ Tag(j)
    \/ OnSuccessLock(j)
    \/ OnSuccess(j)
    \/ OnFailureLock(j)
    \/ OnFailure(j)
    \/ BackoffWake(j)

Next ==
    \/ Tick
    \/ \E j \in Jobs : JobStep(j)

Spec == Init /\ [][Next]_vars

\* the executor never idles while a pipeline can be polled or the clock can
\* advance; the batches of FairSpec run with an enabled limiter that doubles
\* the delay, without --force
FairInit ==
    /\ Init
    /\ config = RateLimitConfigNew(1, Finite(2), MaxMax)
    /\ ~force

FairSpec ==
    /\ FairInit /\ [][Next]_vars
    /\ WF_vars(Next)

\* ---- buffer_track, one call, over every event sequence the channel can carry

\* StreamEvent: Write{bytes, total, content}, Finished, Error, Retry
WriteEvents ==
    {[kind |-> "Write", bytes |-> b, content |-> c] :
        b \in 1..2, c \in {<<1>>, <<2, 3>>}}

OtherEvents ==
    {[kind |-> k, bytes |-> 0, content |-> <<>>] :
        k \in {"Finished", "Error", "Retry"}}

AllStreamEvents == WriteEvents \cup OtherEvents

\* what the stream source sends before it drops the sender
Channels == UNION {[1..n -> AllStreamEvents] : n \in 0..MaxRx}

\* variant of AppendSamples: the chunk is put in front
AppendSamples_Prepend(acc, content) == content \o acc

\* samples.append(&mut content)
AppendSamples(acc, content) == acc \o content

\* pb.set_position(bytes as u64)
SetPosition(pos, bytes) == bytes

BufferInit ==
    /\ config = RateLimitConfigDisabled
    /\ force = FALSE
    /\ now = 0
    /\ state = RateLimiterStateDefault
    /\ lockHolder = 0
    /\ job = [j \in Jobs |-> NewJob]
    /\ nextTrack = 1
    /\ result = "running"
    /\ failDeadline = 0
    /\ failStreak = 0
    /\ lastOp = "none"
    /\ rx \in Channels
    /\ samples = <<>>
    /\ position = 0
    /\ bufferResult = "running"
    /\ consumed = <<>>

\* rx.recv().await yields the next event
Recv(kind) ==
    /\ bufferResult = "running"
    /\ rx # <<>>
    /\ Head(rx).kind = kind
    /\ rx' = Tail(rx)
    /\ consumed' = Append(consumed, Head(rx))
    /\ UNCHANGED <<config, force, now, state, lockHolder, job, nextTrack,
                   result, failDeadline, failStreak, lastOp>>

\* the StreamEvent::Write arm
RecvWrite ==
    /\ Recv("Write")
    /\ position' = SetPosition(position, Head(rx).bytes)
    /\ samples' = AppendSamples(samples, Head(rx).content)
    /\ UNCHANGED bufferResult

\* the StreamEvent::Finished arm: break, then Ok(Samples {..})
RecvFinished ==
    /\ Recv("Finished")
    /\ bufferResult' = "Ok"
    /\ UNCHANGED <<samples, position>>

\* the StreamEvent::Error arm: return Err
RecvError ==
    /\ Recv("Error")
    /\ bufferResult' = "Err"
    /\ UNCHANGED <<samples, position>>

\* the StreamEvent::Retry arm: pb.set_message only
RecvRetry ==
    /\ Recv("Retry")
    /\ UNCHANGED <<samples, position, bufferResult>>

\* rx.recv().await yields None, the sender is gone: the while let ends and
\* buffer_track returns Ok(Samples {..})
RecvNone ==
    /\ bufferResult = "running"
    /\ rx = <<>>
    /\ bufferResult' = "Ok"
    /\ UNCHANGED <<rx, samples, position, consumed>>
    /\ UNCHANGED <<config, force, now, state, lockHolder, job, nextTrack,
                   result, failDeadline, failStreak, lastOp>>

BufferNext ==
    \/ RecvWrite
    \/ RecvFinished
    \/ RecvError
    \/ RecvRetry
    \/ RecvNone

BufferSpec == BufferInit /\ [][BufferNext]_vars

\* ----------------------------------------------------------------- claims
Pending == state.next_ready.present /\ state.next_ready.at > now

InWaitReady(j) == job[j].pc \in {"wr_lock", "wr_locked", "wr_sleep"}

PastWaitReady(j) == job[j].pc \notin {"queued", "wr_lock", "wr_locked",
                                       "wr_sleep", "returned"}

\* C1: with an enabled limiter a job leaves wait_ready only on a locked
\* snapshot that shows no deadline or an elapsed one, and a job whose
\* wait_ready started after an on_failure recorded at t with delay d (gate is
\* the latest such t + d) is not past wait_ready before t + d.
C1_NoStartBeforeDeadline ==
    [][\A j \in Jobs :
          /\ (InWaitReady(j) /\ job'[j].pc = "resolving") => ~Pending
          /\ (IsEnabled(config) /\ PastWaitReady(j))' => (now' >= job'[j].gate)
      ]_vars

C1_Witness ==
    \E j \in Jobs : /\ IsEnabled(config)
                    /\ job[j].pc = "resolving"
                    /\ job[j].gate > 0
                    /\ \E k \in Jobs : job[k].pc = "bo_sleep" /\ job[k].wake > now

\* C2: under fair scheduling every wait_ready call returns (or the batch has
\* been aborted by a fatal error, which drops the call); an iteration of its
\* loop ends in a sleep or in the return, never in an immediate repeat; a
\* deadline extended during the sleep is waited for again.
C2_WaitReadyReturns ==
    /\ \A j \in Jobs : InWaitReady(j) ~> (PastWaitReady(j) \/ result = "Err")
    /\ [][\A j \in Jobs :
             job[j].pc = "wr_locked" =>
                 job'[j].pc \in {"wr_locked", "wr_sleep", "resolving"}]_vars

C2_Witness ==
    \E j \in Jobs : /\ job[j].pc = "wr_sleep"
                    /\ job[j].sleeps = 2
                    /\ result = "running"

\* C3: while a deadline is pending (present and later than now) no step
\* removes it or moves it earlier.
C3_DeadlineMonotonic ==
    [][/\ Pending => (state'.next_ready.present
                       /\ state'.next_ready.at >= state.next_ready.at)
       /\ failStreak' = failStreak + 1 =>
              state'.next_ready =
                  Some(Max(IF state.next_ready.present
                           THEN state.next_ready.at ELSE 0,
                           now + state'.current_delay))]_vars

\* two workers are in their backoff sleep at once: the second on_failure ran
\* while the deadline of the first was pending
C3_Witness ==
    /\ Pending
    /\ \E j, k \in Jobs : /\ j # k
                          /\ job[j].pc = "bo_sleep" /\ job[j].wake > now
                          /\ job[k].pc = "bo_sleep" /\ job[k].wake > now

Clamp(x, lo, hi) == Min(Max(x, lo), hi)

RECURSIVE DelaySeq(_)
\* delay_k of the spec: delay_1 = b, delay_k = clamp(delay_{k-1} * m, b, M)
DelaySeq(k) ==
    IF k = 0 THEN 0
    ELSE IF k = 1 THEN config.base_delay
    ELSE Clamp(DelaySeq(k - 1) * config.multiplier,
               config.base_delay, config.max_delay)

\* C4: the k-th on_failure since the last reset returns delay_k and stores it
\* as current_delay, whichever workers make the calls.
C4_BackoffSequence ==
    [][failStreak' = failStreak + 1 =>
          \E j \in Jobs : /\ job[j].pc = "of_locked"
                          /\ job'[j].pc = "bo_sleep"
                          /\ job'[j].delay = DelaySeq(failStreak')
                          /\ state'.current_delay = DelaySeq(failStreak')]_vars

\* a third consecutive failure whose scaled delay was cut to max_delay
C4_Witness ==
    /\ failStreak = 3
    /\ config.multiplier = 2
    /\ config.base_delay = 1
    /\ config.max_delay < 4
    /\ state.current_delay = config.max_delay

\* C5: on an enabled limiter with reset_after_success, on_success leaves
\* current_delay and next_ready as they are while a deadline later than now is
\* stored, and otherwise sets current_delay to 0 and clears next_ready.
C5_OnSuccessFrame ==
    [][\A j \in Jobs :
          (job[j].pc = "os_locked" /\ job'[j].pc = "returned") =>
              IF Pending THEN state' = state
              ELSE state' = [current_delay |-> 0, next_ready |-> None]]_vars

\* on_success has just run and the deadline of another worker is still there
C5_Witness ==
    /\ lastOp = "on_success"
    /\ Pending
    /\ state.current_delay > 0
    /\ \E j \in Jobs : job[j].pc = "returned" /\ job[j].nSuccess = 1

SoftCauses == {"stream", "buffer"}

FatalCauses == {"encode", "write", "tag"}

\* C6: a failure at stream open or an Error event marks the job Failed, runs
\* the backoff routine and returns Ok; it never makes download_tracks return
\* Err, and the next queued track can still be started.
C6_SoftFailureKeepsBatch ==
    /\ \A j \in Jobs :
          job[j].cause \in SoftCauses =>
              /\ job[j].status = "Failed"
              /\ job[j].nFailure = 1
              /\ job[j].outcome # "Err"
              /\ job[j].pc = "returned" => job[j].outcome = "Ok"
    /\ result = "Err" =>
          \E k \in Jobs : job[k].outcome = "Err" /\ job[k].cause \notin SoftCauses
    /\ (result = "running" /\ nextTrack <= NumJobs
        /\ Cardinality(InFlight) < Parallel) => ENABLED Start(nextTrack)

\* the batch ended Ok with a soft failure in it and the last track Done
C6_Witness ==
    /\ result = "Ok"
    /\ \E j \in Jobs : /\ job[j].cause \in SoftCauses
                       /\ j < NumJobs
                       /\ job[j].outcome = "Ok"
    /\ job[NumJobs].status = "Done"

\* C7: a metadata resolution failure ends the job Failed after one on_failure
\* call, and download_tracks does not return Err because of it.
C7_MetadataFailureIsSoft ==
    \A j \in Jobs :
        job[j].cause = "metadata" =>
            /\ job[j].status = "Failed"
            /\ job[j].nFailure = 1
            /\ job[j].outcome # "Err"
            /\ result # "Err"

\* C8: a failure of Encoding, Writing or Tagging makes download_tracks return
\* Err at once; the failing job has called neither on_success nor on_failure;
\* after the Err nothing is started or continued.
C8_FatalAbortsBatch ==
    [][/\ \A j \in Jobs :
             (job[j].cause \in FatalCauses)' =>
                 (/\ result = "Err"
                  /\ job[j].outcome = "Err"
                  /\ job[j].status = "Fatal"
                  /\ job[j].nSuccess = 0
                  /\ job[j].nFailure = 0)'
       /\ result = "Err" => UNCHANGED <<job, nextTrack, state, result>>]_vars

\* a Writing failure with another track in flight, one returned and one queued
C8_Witness ==
    /\ result = "Err"
    /\ \E j \in Jobs : job[j].cause = "write"
    /\ \E k \in Jobs : job[k].pc \notin {"queued", "returned"}
    /\ \E k \in Jobs : job[k].pc = "queued"

StartedNotFinished == {j \in Jobs : job[j].pc \notin {"queued", "returned"}}

\* C9: at most Parallel jobs have started download_track and not finished it
\* (sleepers included), hence at most Parallel are past Resolving, and a track
\* is started only while fewer than Parallel are in flight.
C9_BoundedParallelism ==
    [][/\ Cardinality(StartedNotFinished)' <= Parallel
       /\ nextTrack' # nextTrack => Cardinality(StartedNotFinished) < Parallel]_vars

\* every slot is taken, one by a worker in its backoff sleep, a track is queued
C9_Witness ==
    /\ Cardinality(StartedNotFinished) = Parallel
    /\ nextTrack <= NumJobs
    /\ \E j \in Jobs : job[j].pc = "bo_sleep"
    /\ \E j \in Jobs : job[j].pc = "wr_sleep"

\* C10: a job whose destination exists while force is off never has the stream
\* opened, is Skipped, calls on_success once and on_failure never and returns
\* Ok; with force on an existing destination still leads to Streaming.
C10_SkipPath ==
    \A j \in Jobs :
        /\ (job[j].existed /\ ~force) =>
              /\ job[j].status = "Skipped"
              /\ ~job[j].opened
              /\ job[j].nSuccess = 1
              /\ job[j].nFailure = 0
              /\ job[j].outcome # "Err"
              /\ job[j].pc = "returned" => job[j].outcome = "Ok"
        /\ job[j].status = "Skipped" => (job[j].existed /\ ~force)
        /\ (job[j].existed /\ force) => job[j].opened

C10_Witness ==
    /\ ~force
    /\ \E j \in Jobs : /\ job[j].existed
                       /\ job[j].pc = "returned"
                       /\ job[j].outcome = "Ok"
    /\ \E k \in Jobs : job[k].opened


Sleeping(j) == job[j].pc \in {"wr_sleep", "bo_sleep"}

Locked(j) == job[j].pc \in {"wr_locked", "os_locked", "of_locked"}

\* C11: a worker suspended in the sleep of wait_ready or of
\* backoff_after_failure does not hold the Mutex; the Mutex is held only by a
\* worker inside one of the three locked blocks, so a sleeper never keeps
\* another worker from taking it.
C11_NoLockAcrossSleep ==
    /\ \A j \in Jobs : Sleeping(j) => lockHolder # j
    /\ lockHolder # 0 => Locked(lockHolder)

\* one worker is in its backoff sleep, one in the sleep of wait_ready, and the
\* Mutex has just been used by one of them and is free again
C11_Witness ==
    /\ lockHolder = 0
    /\ \E j, k \in Jobs : /\ job[j].pc = "bo_sleep" /\ job[j].wake > now
                          /\ job[k].pc = "wr_sleep" /\ job[k].wake > now
                          /\ lastOp = "wait_ready"

\* C12: the locked blocks exclude one another (a worker inside one holds the
\* Mutex, so at most one is inside, as long as the batch has not been dropped
\* by a fatal error), and the state is the one a serial order of
\* the on_failure calls gives: current_delay escalated once per call since the
\* last reset, next_ready the latest of the proposed deadlines.
C12_NoLostUpdate ==
    /\ result # "Err" => \A j \in Jobs : Locked(j) => lockHolder = j
    /\ IsEnabled(config) => state.current_delay = DelaySeq(failStreak)
    /\ state.next_ready.present => state.next_ready.at = failDeadline

\* a second on_failure waits for the Mutex while a first one is inside its
\* locked block, after an earlier failure has already been recorded
C12_Witness ==
    /\ failStreak = 1
    /\ \E j, k \in Jobs : /\ job[j].pc = "of_locked"
                          /\ job[k].pc = "of_lock"

LimiterPcs == {"wr_lock", "wr_locked", "wr_sleep", "os_lock", "os_locked",
               "of_lock", "of_locked", "bo_sleep"}

\* C13: with a disabled config the RateLimiterState keeps its initial value,
\* no worker ever waits for the Mutex or sleeps in wait_ready or in the
\* backoff routine, and every on_failure returns zero.
C13_DisabledIsNoOp ==
    config.base_delay = 0 =>
        /\ state = RateLimiterStateDefault
        /\ lockHolder = 0
        /\ failDeadline = 0
        /\ lastOp = "none"
        /\ \A j \in Jobs : /\ job[j].pc \notin LimiterPcs
                           /\ job[j].delay = 0
                           /\ job[j].wake = 0

\* a disabled batch in which on_failure and on_success have both been called
C13_Witness ==
    /\ config.base_delay = 0
    /\ \E j \in Jobs : job[j].nFailure = 1 /\ job[j].pc = "returned"
    /\ \E j \in Jobs : job[j].nSuccess = 1 /\ job[j].pc = "returned"
    /\ now > 0

HasKind(events, kind) == \E i \in 1..Len(events) : events[i].kind = kind

\* C14: buffer_track returns its samples (and download_track goes on to
\* encode them) only after a Finished event has been received; a channel
\* that is closed without Finished or Error never yields Ok
C14_OkOnlyAfterFinished ==
    bufferResult = "Ok" => HasKind(consumed, "Finished")

\* C15: a soft failure marks the job Failed, then calls on_failure; with a
\* delay d > 0 the worker sleeps until d has elapsed since that call and only
\* then returns, so its slot stays taken for d; with a disabled limiter
\* (on_failure returns 0) it returns in the same step, without sleeping
C15_BackoffHoldsSlot ==
    [][\A j \in Jobs :
          /\ job'[j].nFailure = job[j].nFailure + 1 =>
                /\ job'[j].status = "Failed"
                /\ job'[j].pc = IF config.base_delay = 0 THEN "returned"
                                ELSE "of_lock"
          /\ job[j].pc = "of_locked" /\ job'[j].pc # "of_locked" =>
                /\ job'[j].pc = "bo_sleep"
                /\ job'[j].status = "Failed"
                /\ job'[j].delay > 0
                /\ job'[j].wake = now + job'[j].delay
                /\ j \in InFlight'
          /\ job[j].pc = "bo_sleep" /\ job'[j].pc # "bo_sleep" =>
                /\ job'[j].pc = "returned"
                /\ now >= job[j].wake
          /\ nextTrack' # nextTrack =>
                Cardinality(InFlight) < Parallel]_vars

C15_Witness ==
    /\ nextTrack <= NumJobs
    /\ Cardinality(InFlight) = Parallel
    /\ \E j \in Jobs : /\ job[j].pc = "bo_sleep"
                       /\ job[j].wake > now
                       /\ job[j].delay = 2

\* C16: a job calls at most one of on_success and on_failure, at most once:
\* on_success exactly on the Done and skip exits, on_failure exactly on the
\* Failed exits of streaming and buffering; a Write or Retry event received
\* while buffering calls no RateLimiter operation and leaves the state alone
C16_OneLimiterCallPerJob ==
    [][/\ \A j \in Jobs :
             /\ job'[j].nSuccess + job'[j].nFailure <= 1
             /\ job'[j].nSuccess = 1 <=> job'[j].status \in {"Done", "Skipped"}
             /\ job'[j].nFailure = 1 <=> job'[j].status = "Failed"
             /\ job'[j].status = "Failed" => job'[j].cause \in SoftCauses
             /\ job'[j].nFailure = job[j].nFailure + 1 =>
                   job[j].pc \in {"streaming", "buffering"}
             /\ job'[j].nSuccess = job[j].nSuccess + 1 =>
                   job[j].pc \in {"resolving", "tagging"}
             /\ job'[j].received = job[j].received + 1 =>
                   /\ job[j].pc = "buffering" /\ job'[j].pc = "buffering"
                   /\ job'[j].nSuccess = 0 /\ job'[j].nFailure = 0
                   /\ UNCHANGED <<state, lockHolder, lastOp, failStreak,
                                  failDeadline>>]_vars

C16_Witness ==
    /\ state.current_delay > 0
    /\ \E j, k, m \in Jobs :
          /\ job[j].nSuccess = 1 /\ job[j].status = "Done"
          /\ job[k].nFailure = 1 /\ job[k].cause = "buffer"
          /\ job[m].pc = "buffering" /\ job[m].received = 1

\* C17: under fair scheduling download_tracks eventually returns; when it
\* returns Ok every job has returned as Done, Skipped or Failed, and no worker
\* is left in wait_ready, in the backoff sleep or waiting for the Mutex
C17_BatchTerminates ==
    /\ <>(result # "running")
    /\ [](result = "Ok" =>
             \A j \in Jobs : /\ job[j].pc = "returned"
                             /\ job[j].status \in {"Done", "Skipped", "Failed"})
    /\ [](result = "Err" => \E j \in Jobs : /\ job[j].pc = "returned"
                                             /\ job[j].status = "Fatal")

C17_Witness ==
    /\ result = "Ok"
    /\ failDeadline >= 2
    /\ now >= failDeadline
    /\ job[1].status = "Failed"
    /\ job[2].status = "Failed"
    /\ job[3].status = "Done"

RECURSIVE ConcatWrites(_)
\* the contents of the Write events of a sequence, in order
ConcatWrites(events) ==
    IF events = <<>> THEN <<>>
    ELSE IF Head(events).kind = "Write"
         THEN Head(events).content \o ConcatWrites(Tail(events))
         ELSE ConcatWrites(Tail(events))

RECURSIVE LastOffset(_)
\* the byte offset of the last Write event of a sequence, 0 without one
LastOffset(events) ==
    IF events = <<>> THEN 0
    ELSE LET last == events[Len(events)]
         IN  IF last.kind = "Write" THEN last.bytes
             ELSE LastOffset(SubSeq(events, 1, Len(events) - 1))

\* C18: at every point of buffer_track the sample buffer is the concatenation,
\* in arrival order, of the chunks of the Write events received so far, and the
\* progress position is the offset of the last of them; Retry events therefore
\* change neither
C18_SamplesInArrivalOrder ==
    /\ samples = ConcatWrites(consumed)
    /\ position = LastOffset(consumed)

C18_Witness ==
    /\ bufferResult = "Ok"
    /\ Len(consumed) = 4
    /\ consumed[1] = [kind |-> "Write", bytes |-> 1, content |-> <<1>>]
    /\ consumed[2].kind = "Retry"
    /\ consumed[3] = [kind |-> "Write", bytes |-> 2, content |-> <<2, 3>>]
    /\ consumed[4].kind = "Finished"

\* C19: current_delay is 0 or lies between base_delay and max_delay of the
\* config, a deadline is present only at a backoff level above 0, and the
\* deadline on_failure leaves is never earlier than the now it read
C19_StateInvariant ==
    [][/\ \/ state'.current_delay = 0
          \/ /\ config.base_delay <= state'.current_delay
             /\ state'.current_delay <= config.max_delay
       /\ state'.next_ready.present => state'.current_delay # 0
       /\ failStreak' = failStreak + 1 =>
             /\ state'.next_ready.present
             /\ state'.next_ready.at >= now]_vars

C19_Witness ==
    /\ lastOp = "on_failure"
    /\ config.max_delay > config.base_delay
    /\ state.current_delay = config.max_delay
    /\ state.next_ready.present
    /\ \E j \in Jobs : job[j].pc = "of_lock"

\* C20: wait_ready leaves current_delay alone and at most clears an elapsed
\* deadline; a failure at a level above 0 escalates from that level whether or
\* not the earlier deadline is still there; and the level goes back to 0 only
\* in an on_success that finds no pending deadline
C20_LevelSurvivesElapsedDeadline ==
    [][/\ (\E j \in Jobs : job[j].pc = "wr_locked" /\ job'[j].pc # "wr_locked") =>
             /\ state'.current_delay = state.current_delay
             /\ \/ state'.next_ready = state.next_ready
                \/ /\ state.next_ready.present
                   /\ state.next_ready.at <= now
                   /\ state'.next_ready = None
       /\ failStreak' = failStreak + 1 /\ state.current_delay > 0 =>
             state'.current_delay =
                 Clamp(state.current_delay * config.multiplier,
                       config.base_delay, config.max_delay)
       /\ failStreak' = failStreak + 1 /\ state.current_delay = 0 =>
             state'.current_delay = config.base_delay
       /\ state.current_delay > 0 /\ state'.current_delay = 0 =>
             /\ ~Pending
             /\ \E j \in Jobs : /\ job[j].pc = "os_locked"
                                /\ job'[j].pc = "returned"]_vars

C20_Witness ==
    /\ lastOp = "on_failure"
    /\ failStreak = 2
    /\ config.base_delay = 1
    /\ \E j \in Jobs : /\ job[j].pc = "bo_sleep"
                       /\ job[j].delay = 2
                       /\ job[j].gate > 0
                       /\ job[j].wake - job[j].delay >= job[j].gate
                       /\ state.next_ready = Some(job[j].wake)

====
